---- MODULE Spec2Model ----
(***************************************************************************)
(* Model of the `sequences` Python extension (src/lib.rs): the scoring     *)
(* closure matrix_match_fn, the pairwise entry point align and the batch   *)
(* entry point align_set.  The Needleman-Wunsch engine itself lives in the *)
(* `seal` crate (seal::pair), whose source is not part of the repository   *)
(* tree; its matrix construction and traceback are modelled from the       *)
(* design document (sections 4.2 and 4.3).                                 *)
(***************************************************************************)
EXTENDS Integers, Sequences, FiniteSets, TLC

(* ------------------------------ bounds --------------------------------- *)
\* longest first sequence (a) handed to align
MaxLenA == 3
\* longest second sequence (b) handed to align
MaxLenB == 2
\* largest number of entries of a similarity matrix in the compare model
MaxCmpEntries == 2
\* largest number of sequences handed to align_set
MaxSeqs == 3
\* number of queries put to one scoring closure in the compare model
MaxQueries == 2

\* tokens (&str) the sequences and the similarity matrix are built from
Tokens == {"A", "C", "T"}
\* the sequences a collection handed to align_set is drawn from
SeqPool == {<<>>, <<"A">>, <<"A", "C">>, <<"C", "A">>, <<"A", "T", "C">>}
\* scores (isize) a similarity matrix entry may carry
Scores == {-2, 2}

VARIABLES
    similarity_matrix,  \* Option<HashMap<(&str,&str),isize>> of the current call
    qx, qy,             \* arguments of the scoring closure (compare model)
    cmp,                \* value the scoring closure returned, "none" before
    queries,            \* number of closure calls made (compare model)
    a, b,               \* the two sequences handed to align
    alignment_set,      \* Result of AlignmentSet::new inside align
    result,             \* PyResult<AlignmentResult> of align
    seqs,               \* the collection handed to align_set
    pairIdx,            \* position of align_set's loop in combinations(2)
    scores,             \* align_set's HashMap under construction
    computed,           \* pairs whose AlignmentSet::new was called so far
    setResult,          \* PyResult<HashMap<..>> of align_set
    pc                  \* position of the call

vars == <<similarity_matrix, qx, qy, cmp, queries, a, b, alignment_set, result,
          seqs, pairIdx, scores, computed, setResult, pc>>

(* --------------------------- similarity matrix ------------------------- *)
\* Option<HashMap>: None, or Some(set of <<x, y, score>> with unique keys)
None == [some |-> FALSE, map |-> {}]
Some(m) == [some |-> TRUE, map |-> m]

Entries == Tokens \X Tokens \X Scores

UniqueKeys(m) ==
    \A e1 \in m, e2 \in m : (e1[1] = e2[1] /\ e1[2] = e2[2]) => e1 = e2

\* every HashMap with at most n entries
Maps(n) == {m \in SUBSET Entries : Cardinality(m) <= n /\ UniqueKeys(m)}

Options(n) == {None} \cup {Some(m) : m \in Maps(n)}

\* the similarity matrices handed to align: None, empty, or one entry
AlignOptions == Options(1)
\* the similarity matrices handed to align_set
SetOptions == {None, Some({}), Some({<<"A", "C", 2>>}), Some({<<"A", "A", -2>>})}

\* HashMap::get(&(x, y)).is_some()
HasKey(m, x, y) == \E e \in m : e[1] = x /\ e[2] = y
\* HashMap::get(&(x, y)).unwrap()
GetKey(m, x, y) == (CHOOSE e \in m : e[1] = x /\ e[2] = y)[3]

(* ------------------------------ scoring -------------------------------- *)
\* variant: the reversed key is looked up before the key as put
matrix_match_fn_ReversedFirst(sm, x, y) ==
    IF sm.some
    THEN IF HasKey(sm.map, y, x) THEN GetKey(sm.map, y, x)
         ELSE IF HasKey(sm.map, x, y) THEN GetKey(sm.map, x, y)
         ELSE IF x = y THEN 1 ELSE -1
    ELSE IF x = y THEN 1 ELSE -1

\* variant: the reversed key is never looked up
matrix_match_fn_NoReverse(sm, x, y) ==
    IF sm.some
    THEN IF HasKey(sm.map, x, y) THEN GetKey(sm.map, x, y)
         ELSE IF x = y THEN 1 ELSE -1
    ELSE IF x = y THEN 1 ELSE -1

\* the closure matrix_match_fn returns, applied to (x, y)
matrix_match_fn(sm, x, y) ==
    IF sm.some
    THEN IF HasKey(sm.map, x, y) THEN GetKey(sm.map, x, y)
         ELSE IF HasKey(sm.map, y, x) THEN GetKey(sm.map, y, x)
         ELSE IF x = y THEN 1 ELSE -1
    ELSE IF x = y THEN 1 ELSE -1

(* --------------------- seal::pair (from the design) -------------------- *)
\* NeedlemanWunsch::new(-1, -1, -1): one linear gap cost
gap_score == -1

Max2(p, q) == IF p >= q THEN p ELSE q
Max3(p, q, r) == Max2(p, Max2(q, r))

\* value of cell (i, j) of a matrix kept as a sequence of rows
At(H, i, j) == H[i + 1][j + 1]

\* row 0 of the matrix: H[0][j] = j * gap_score
FirstRow(m) == [k \in 1..(m + 1) |-> (k - 1) * gap_score]

\* cells j..m of row i, given row i-1 and the cell to the left
RECURSIVE FillCells(_, _, _, _, _, _)
FillCells(prev, S, i, j, m, left) ==
    IF j > m THEN <<>>
    ELSE LET h == Max3(prev[j] + S[i - 1, j - 1],
                       prev[j + 1] + gap_score,
                       left + gap_score)
         IN <<h>> \o FillCells(prev, S, i, j + 1, m, h)

\* row i of the matrix: H[i][0] = i * gap_score, then the recurrence
FillRow(prev, S, i, m) ==
    <<i * gap_score>> \o FillCells(prev, S, i, 1, m, i * gap_score)

\* rows i..n of the matrix, given row i-1
RECURSIVE FillRows(_, _, _, _, _)
FillRows(prev, S, i, n, m) ==
    IF i > n THEN <<>>
    ELSE LET row == FillRow(prev, S, i, m)
         IN <<row>> \o FillRows(row, S, i + 1, n, m)

\* InMemoryAlignmentMatrix filled for lengths n, m and scores S[x, y]
FillMatrix(S, n, m) == <<FirstRow(m)>> \o FillRows(FirstRow(m), S, 1, n, m)

\* AlignmentSet::new(x_len, y_len, strategy, closure): Err on a zero length
AlignmentSetNew(n, m, S) ==
    IF n = 0 \/ m = 0
    THEN [ok |-> FALSE, n |-> n, m |-> m, S |-> <<>>, H |-> <<>>]
    ELSE [ok |-> TRUE, n |-> n, m |-> m, S |-> S, H |-> FillMatrix(S, n, m)]

\* variant: Delete is tried before Align
StepAt_DeleteFirst(H, S, i, j) ==
    IF i > 0 /\ j > 0
    THEN IF At(H, i, j) = At(H, i - 1, j) + gap_score
         THEN <<"Delete", i - 1>>
         ELSE IF At(H, i, j) = At(H, i - 1, j - 1) + S[i - 1, j - 1]
         THEN <<"Align", i - 1, j - 1>>
         ELSE <<"Insert", j - 1>>
    ELSE IF i > 0 THEN <<"Delete", i - 1>>
    ELSE <<"Insert", j - 1>>

\* the step the traceback emits at cell (i, j)
StepAt(H, S, i, j) ==
    IF i > 0 /\ j > 0
    THEN IF At(H, i, j) = At(H, i - 1, j - 1) + S[i - 1, j - 1]
         THEN <<"Align", i - 1, j - 1>>
         ELSE IF At(H, i, j) = At(H, i - 1, j) + gap_score
         THEN <<"Delete", i - 1>>
         ELSE <<"Insert", j - 1>>
    ELSE IF i > 0 THEN <<"Delete", i - 1>>
    ELSE <<"Insert", j - 1>>

\* the steps from (i, j) back to (0, 0), in traversal order
RECURSIVE Traceback(_, _, _, _)
Traceback(H, S, i, j) ==
    IF i = 0 /\ j = 0 THEN <<>>
    ELSE LET st == StepAt(H, S, i, j)
         IN <<st>> \o (IF st[1] = "Align" THEN Traceback(H, S, i - 1, j - 1)
                       ELSE IF st[1] = "Delete" THEN Traceback(H, S, i - 1, j)
                       ELSE Traceback(H, S, i, j - 1))

Reverse(s) == [k \in 1..Len(s) |-> s[Len(s) + 1 - k]]

\* AlignmentSet::global_alignment(): steps from the start, and the score
GlobalAlignment(as) ==
    [steps |-> Reverse(Traceback(as.H, as.S, as.n, as.m)),
     score |-> At(as.H, as.n, as.m)]

(* ------------------------------- align --------------------------------- *)
\* variant: the closure scores by the default rule, the table dropped
AlignClosure_NoTable(sm, sa, sb) ==
    [x \in 0..(Len(sa) - 1), y \in 0..(Len(sb) - 1) |->
        IF sa[x + 1] = sb[y + 1] THEN 1 ELSE -1]

\* the closure |x, y| match_fn(a[x], b[y]), tabulated over 0-based indices
AlignClosure(sm, sa, sb) ==
    [x \in 0..(Len(sa) - 1), y \in 0..(Len(sb) - 1) |->
        matrix_match_fn(sm, sa[x + 1], sb[y + 1])]

\* variant: Insert is given Delete's tag
StepTag_InsertAsDelete(step) ==
    CASE step[1] = "Align" -> 0
      [] step[1] = "Delete" -> 1
      [] step[1] = "Insert" -> 1

\* variant: the tags of Delete and Insert are exchanged
StepTag_Exchanged(step) ==
    CASE step[1] = "Align" -> 0
      [] step[1] = "Delete" -> 2
      [] step[1] = "Insert" -> 1

\* the u8 tag a Step is mapped to
StepTag(step) ==
    CASE step[1] = "Align" -> 0
      [] step[1] = "Delete" -> 1
      [] step[1] = "Insert" -> 2

\* AlignmentResult { steps, score } built from a global alignment
AlignmentResult(ga) ==
    [steps |-> [k \in 1..Len(ga.steps) |-> StepTag(ga.steps[k])],
     score |-> ga.score]

Ok(v) == [kind |-> "Ok", value |-> v]
\* Err(PyValueError::new_err(error))
Err == [kind |-> "Err", value |-> "PyValueError"]
Pending == [kind |-> "Pending", value |-> "none"]

NoAlignmentSet == [ok |-> FALSE, n |-> 0, m |-> 0, S |-> <<>>, H |-> <<>>]

\* every sequence of at most n tokens of T
SeqsUpTo(T, n) == UNION {[1..k -> T] : k \in 0..n}

\* align, first half: the scoring closure and AlignmentSet::new
AlignNew ==
    /\ pc = "align"
    /\ alignment_set' = AlignmentSetNew(Len(a), Len(b),
                                        AlignClosure(similarity_matrix, a, b))
    /\ pc' = "align_match"
    /\ UNCHANGED <<similarity_matrix, qx, qy, cmp, queries, a, b, result,
                   seqs, pairIdx, scores, computed, setResult>>

\* align, Ok arm: global alignment, tags and score
AlignOk ==
    /\ pc = "align_match"
    /\ alignment_set.ok
    /\ result' = Ok(AlignmentResult(GlobalAlignment(alignment_set)))
    /\ pc' = "done"
    /\ UNCHANGED <<similarity_matrix, qx, qy, cmp, queries, a, b,
                   alignment_set, seqs, pairIdx, scores, computed, setResult>>

\* variant: the Err arm returns an empty AlignmentResult
AlignErr_EmptyResult ==
    /\ pc = "align_match"
    /\ ~alignment_set.ok
    /\ result' = [kind |-> "Ok", value |-> [steps |-> <<>>, score |-> 0]]
    /\ pc' = "done"
    /\ UNCHANGED <<similarity_matrix, qx, qy, cmp, queries, a, b,
                   alignment_set, seqs, pairIdx, scores, computed, setResult>>

\* align, Err arm: the library's error becomes a ValueError
AlignErr ==
    /\ pc = "align_match"
    /\ ~alignment_set.ok
    /\ result' = Err
    /\ pc' = "done"
    /\ UNCHANGED <<similarity_matrix, qx, qy, cmp, queries, a, b,
                   alignment_set, seqs, pairIdx, scores, computed, setResult>>

InitAlign ==
    /\ similarity_matrix \in AlignOptions
    /\ a \in SeqsUpTo(Tokens, MaxLenA)
    /\ b \in SeqsUpTo(Tokens, MaxLenB)
    /\ alignment_set = NoAlignmentSet
    /\ result = Pending
    /\ qx = "A" /\ qy = "A" /\ cmp = 0 /\ queries = 0
    /\ seqs = <<>> /\ pairIdx = 1 /\ scores = <<>> /\ computed = {}
    /\ setResult = Pending
    /\ pc = "align"

NextAlign == AlignNew \/ AlignOk \/ AlignErr

SpecAlign == InitAlign /\ [][NextAlign]_vars

(* ------------------------------ compare -------------------------------- *)
\* one call of the closure matrix_match_fn returned
Compare ==
    /\ pc = "compare"
    /\ queries < MaxQueries
    /\ \E x \in Tokens, y \in Tokens :
        /\ qx' = x
        /\ qy' = y
        /\ cmp' = matrix_match_fn(similarity_matrix, x, y)
    /\ queries' = queries + 1
    /\ UNCHANGED <<similarity_matrix, a, b, alignment_set, result,
                   seqs, pairIdx, scores, computed, setResult, pc>>

InitCompare ==
    /\ similarity_matrix \in Options(MaxCmpEntries)
    /\ qx = "A" /\ qy = "A" /\ cmp = 0 /\ queries = 0
    /\ a = <<>> /\ b = <<>>
    /\ alignment_set = NoAlignmentSet
    /\ result = Pending
    /\ seqs = <<>> /\ pairIdx = 1 /\ scores = <<>> /\ computed = {}
    /\ setResult = Pending
    /\ pc = "compare"

NextCompare == Compare

SpecCompare == InitCompare /\ [][NextCompare]_vars

(* ====================== properties of align ============================ *)
AlignDone == pc = "done" /\ result.kind # "Pending"
AlignSucceeded == AlignDone /\ result.kind = "Ok"

\* compare(a[i-1], b[j-1]) for 1-based prefix lengths i, j
Cmp(i, j) == matrix_match_fn(similarity_matrix, a[i], b[j])

\* the matrix satisfies the base cases and the recurrence at every cell
SatisfiesRecurrence(H, n, m) ==
    /\ Len(H) = n + 1
    /\ \A i \in 0..n : Len(H[i + 1]) = m + 1
    /\ At(H, 0, 0) = 0
    /\ \A i \in 1..n : At(H, i, 0) = i * (-1)
    /\ \A j \in 1..m : At(H, 0, j) = j * (-1)
    /\ \A i \in 1..n, j \in 1..m :
        LET d == At(H, i - 1, j - 1) + Cmp(i, j)
            u == At(H, i - 1, j) + (-1)
            l == At(H, i, j - 1) + (-1)
        IN /\ At(H, i, j) \in {d, u, l}
           /\ At(H, i, j) >= d
           /\ At(H, i, j) >= u
           /\ At(H, i, j) >= l

\* every global alignment of the prefixes a[0..i), b[0..j), as step lists
RECURSIVE Alignments(_, _)
Alignments(i, j) ==
    IF i = 0 /\ j = 0 THEN {<<>>}
    ELSE (IF i > 0 /\ j > 0
          THEN {Append(p, <<"Align", i - 1, j - 1>>) : p \in Alignments(i - 1, j - 1)}
          ELSE {})
         \cup (IF i > 0
               THEN {Append(p, <<"Delete", i - 1>>) : p \in Alignments(i - 1, j)}
               ELSE {})
         \cup (IF j > 0
               THEN {Append(p, <<"Insert", j - 1>>) : p \in Alignments(i, j - 1)}
               ELSE {})

\* total score of a step list: compare on Align steps, -1 on every gap
RECURSIVE Total(_)
Total(p) ==
    IF p = <<>> THEN 0
    ELSE LET st == p[Len(p)]
             rest == SubSeq(p, 1, Len(p) - 1)
         IN Total(rest) + (IF st[1] = "Align" THEN Cmp(st[2] + 1, st[3] + 1)
                           ELSE -1)

\* the steps of the library's global alignment behind the returned result
LibSteps == GlobalAlignment(alignment_set).steps

\* C1: the score align returns is H[n][m] of the Needleman-Wunsch recurrence
\* (base cases i*gap, j*gap, three-way max with gap -1), and it is the
\* maximum total score over all global alignments of a and b.
C1_ScoreIsOptimal ==
    AlignSucceeded =>
        LET n == Len(a)
            m == Len(b)
            all == Alignments(n, m)
        IN /\ SatisfiesRecurrence(alignment_set.H, n, m)
           /\ result.value.score = At(alignment_set.H, n, m)
           /\ \A p \in all : Total(p) <= result.value.score
           /\ \E p \in all : Total(p) = result.value.score

\* a successful call on two sequences of full length with a table entry that
\* overrides the default rule for a pair of tokens the sequences hold
C1_Witness ==
    /\ AlignSucceeded
    /\ Len(a) = MaxLenA /\ Len(b) = MaxLenB
    /\ similarity_matrix.some
    /\ \E i \in 1..Len(a), j \in 1..Len(b) :
        /\ HasKey(similarity_matrix.map, a[i], b[j])
        /\ Cmp(i, j) \notin {1, -1}
    /\ result.value.score > -MaxLenA

\* x-indices of the Align and Delete steps, in step order
XIndices(st) == SelectSeq(st, LAMBDA e : e[1] \in {"Align", "Delete"})
\* y-indices of the Align and Insert steps, in step order
YIndices(st) == SelectSeq(st, LAMBDA e : e[1] \in {"Align", "Insert"})

CountTags(tags, T) == Cardinality({k \in 1..Len(tags) : tags[k] \in T})

\* C2: the x-indices of the Align/Delete steps are 0..len(a)-1 in order, the
\* y-indices of the Align/Insert steps are 0..len(b)-1 in order, and the
\* returned tags count len(a) Align+Delete and len(b) Align+Insert.
C2_StepCoverage ==
    AlignSucceeded =>
        LET xs == XIndices(LibSteps)
            ys == YIndices(LibSteps)
        IN /\ Len(xs) = Len(a)
           /\ \A k \in 1..Len(xs) : xs[k][2] = k - 1
           /\ Len(ys) = Len(b)
           /\ \A k \in 1..Len(ys) :
                ys[k][IF ys[k][1] = "Align" THEN 3 ELSE 2] = k - 1
           /\ Len(result.value.steps) = Len(LibSteps)
           /\ CountTags(result.value.steps, {0, 1}) = Len(a)
           /\ CountTags(result.value.steps, {0, 2}) = Len(b)

\* a result that holds all three kinds of step
C2_Witness ==
    /\ AlignSucceeded
    /\ {0, 1, 2} \subseteq {result.value.steps[k] : k \in 1..Len(result.value.steps)}

\* C3: align fails with a value error exactly when a or b is empty, and
\* returns an AlignmentResult exactly when both are non-empty.
C3_EmptyInputFails ==
    AlignDone =>
        /\ (Len(a) = 0 \/ Len(b) = 0) => result = Err
        /\ (Len(a) > 0 /\ Len(b) > 0) => result.kind = "Ok"

\* the call with an empty a and a non-empty b has returned its error
C3_Witness == AlignDone /\ Len(a) = 0 /\ Len(b) > 0 /\ result.kind = "Err"

\* the cell the k-th step (in returned order) was emitted at: the prefix
\* lengths of a and b consumed by steps 1..k
CellI(st, k) == Cardinality({q \in 1..k : st[q][1] \in {"Align", "Delete"}})
CellJ(st, k) == Cardinality({q \in 1..k : st[q][1] \in {"Align", "Insert"}})

DiagHolds(H, i, j) == At(H, i, j) = At(H, i - 1, j - 1) + Cmp(i, j)
UpHolds(H, i, j) == At(H, i, j) = At(H, i - 1, j) + (-1)
LeftHolds(H, i, j) == At(H, i, j) = At(H, i, j - 1) + (-1)

\* the step the tie-break order Align, Delete, Insert asks for at (i, j)
Preferred(H, i, j) ==
    IF i = 0 THEN <<"Insert", j - 1>>
    ELSE IF j = 0 THEN <<"Delete", i - 1>>
    ELSE IF DiagHolds(H, i, j) THEN <<"Align", i - 1, j - 1>>
    ELSE IF UpHolds(H, i, j) THEN <<"Delete", i - 1>>
    ELSE <<"Insert", j - 1>>

\* C9: the traceback prefers Align to Delete to Insert at every cell it
\* visits, emits only Insert on row 0 and only Delete on column 0, and the
\* steps are returned from the start of the sequences (reversed); the call
\* align(["A","T","C"], ["A","C"]) under the default rule returns score 1
\* and the steps Align(0,0), Delete(1), Align(2,1).
C9_TieBreakOrder ==
    AlignSucceeded =>
        LET st == LibSteps
            H == alignment_set.H
        IN /\ \A k \in 1..Len(st) :
                st[k] = Preferred(H, CellI(st, k), CellJ(st, k))
           /\ Len(st) > 0 =>
                /\ CellI(st, Len(st)) = Len(a)
                /\ CellJ(st, Len(st)) = Len(b)
           /\ (a = <<"A", "T", "C">> /\ b = <<"A", "C">>
               /\ similarity_matrix = None) =>
                /\ result.value.score = 1
                /\ st = << <<"Align", 0, 0>>, <<"Delete", 1>>, <<"Align", 2, 1>> >>
                /\ result.value.steps = <<0, 1, 0>>

\* a result whose traceback met a cell where two branches tie: Align with
\* Delete, or Delete with Insert
C9_Witness ==
    /\ AlignSucceeded
    /\ LET st == LibSteps
           H == alignment_set.H
       IN /\ \E k \in 1..Len(st) :
                LET i == CellI(st, k)
                    j == CellJ(st, k)
                IN i > 0 /\ j > 0 /\ DiagHolds(H, i, j) /\ UpHolds(H, i, j)
          /\ \E k \in 1..Len(st) :
                LET i == CellI(st, k)
                    j == CellJ(st, k)
                IN /\ i > 0 /\ j > 0 /\ ~DiagHolds(H, i, j)
                   /\ UpHolds(H, i, j) /\ LeftHolds(H, i, j)

\* total score of the first k returned tags, read against a and b
RECURSIVE TagTotal(_, _)
TagTotal(tags, k) ==
    IF k = 0 THEN 0
    ELSE TagTotal(tags, k - 1)
         + (IF tags[k] = 0
            THEN Cmp(CountTags(SubSeq(tags, 1, k), {0, 1}),
                     CountTags(SubSeq(tags, 1, k), {0, 2}))
            ELSE -1)

\* C10: the returned steps and the returned score agree: the compare scores
\* of the Align steps plus -1 per Delete and Insert step sum to the score,
\* and the traceback takes at most len(a) + len(b) steps to reach (0, 0).
C10_StepsMatchScore ==
    AlignSucceeded =>
        LET tags == result.value.steps
        IN /\ Len(tags) <= Len(a) + Len(b)
           /\ CountTags(tags, {0, 1}) = Len(a)
           /\ CountTags(tags, {0, 2}) = Len(b)
           /\ \A k \in 1..Len(tags) : tags[k] \in {0, 1, 2}
           /\ TagTotal(tags, Len(tags)) = result.value.score

\* a result with a gap step and an Align step scored by the table
C10_Witness ==
    /\ AlignSucceeded
    /\ similarity_matrix.some
    /\ LET tags == result.value.steps
       IN /\ \E k \in 1..Len(tags) : tags[k] # 0
          /\ \E k \in 1..Len(tags) :
                /\ tags[k] = 0
                /\ Cmp(CountTags(SubSeq(tags, 1, k), {0, 1}),
                       CountTags(SubSeq(tags, 1, k), {0, 2})) \notin {1, -1}

(* ============================ align_set ================================ *)
\* align as one function: what the call returns for (a, b, similarity_matrix)
AlignCall(sa, sb, sm) ==
    LET as == AlignmentSetNew(Len(sa), Len(sb), AlignClosure(sm, sa, sb))
    IN IF as.ok THEN Ok(AlignmentResult(GlobalAlignment(as))) ELSE Err

\* the pairs <<i, j>>, j from `from` on, then those of the later i
RECURSIVE CombinationsFrom(_, _, _)
CombinationsFrom(i, j, len) ==
    IF i >= len - 1 THEN <<>>
    ELSE IF j >= len THEN CombinationsFrom(i + 1, i + 2, len)
    ELSE << <<i, j>> >> \o CombinationsFrom(i, j + 1, len)

\* (0..len).combinations(2), in itertools' lexicographic order
Combinations2(len) == CombinationsFrom(0, 1, len)

\* variant: the two sequences of the pair are exchanged
PairAlignmentSet_Exchanged(sq, sm, pr) ==
    LET sa == sq[pr[2] + 1]
        sb == sq[pr[1] + 1]
    IN AlignmentSetNew(Len(sa), Len(sb), AlignClosure(sm, sa, sb))

\* AlignmentSet::new for the pair (x, y): a = seqs[x], b = seqs[y]
PairAlignmentSet(sq, sm, pr) ==
    LET sa == sq[pr[1] + 1]
        sb == sq[pr[2] + 1]
    IN AlignmentSetNew(Len(sa), Len(sb), AlignClosure(sm, sa, sb))

\* HashMap::insert(key, value)
Insert(map, key, value) ==
    [k \in (DOMAIN map) \cup {key} |-> IF k = key THEN value ELSE map[k]]

\* one pass of the loop, Ok arm: the pair's result is inserted at (x, y)
SetPairOk ==
    /\ pc = "set_loop"
    /\ pairIdx <= Len(Combinations2(Len(seqs)))
    /\ LET pr == Combinations2(Len(seqs))[pairIdx]
           as == PairAlignmentSet(seqs, similarity_matrix, pr)
       IN /\ as.ok
          /\ scores' = Insert(scores, pr, AlignmentResult(GlobalAlignment(as)))
          /\ computed' = computed \cup {pr}
    /\ pairIdx' = pairIdx + 1
    /\ UNCHANGED <<similarity_matrix, qx, qy, cmp, queries, a, b,
                   alignment_set, result, seqs, setResult, pc>>

\* variant: the Err arm skips the pair and the loop goes on
SetPairErr_Skip ==
    /\ pc = "set_loop"
    /\ pairIdx <= Len(Combinations2(Len(seqs)))
    /\ LET pr == Combinations2(Len(seqs))[pairIdx]
           as == PairAlignmentSet(seqs, similarity_matrix, pr)
       IN /\ ~as.ok
          /\ computed' = computed \cup {pr}
    /\ pairIdx' = pairIdx + 1
    /\ UNCHANGED <<similarity_matrix, qx, qy, cmp, queries, a, b,
                   alignment_set, result, seqs, scores, setResult, pc>>

\* variant: the Err arm returns the results gathered so far
SetPairErr_Partial ==
    /\ pc = "set_loop"
    /\ pairIdx <= Len(Combinations2(Len(seqs)))
    /\ LET pr == Combinations2(Len(seqs))[pairIdx]
           as == PairAlignmentSet(seqs, similarity_matrix, pr)
       IN /\ ~as.ok
          /\ computed' = computed \cup {pr}
    /\ setResult' = [kind |-> "Ok", value |-> scores]
    /\ pc' = "done"
    /\ UNCHANGED <<similarity_matrix, qx, qy, cmp, queries, a, b,
                   alignment_set, result, seqs, pairIdx, scores>>

\* one pass of the loop, Err arm: align_set returns the pair's error
SetPairErr ==
    /\ pc = "set_loop"
    /\ pairIdx <= Len(Combinations2(Len(seqs)))
    /\ LET pr == Combinations2(Len(seqs))[pairIdx]
           as == PairAlignmentSet(seqs, similarity_matrix, pr)
       IN /\ ~as.ok
          /\ computed' = computed \cup {pr}
    /\ setResult' = Err
    /\ pc' = "done"
    /\ UNCHANGED <<similarity_matrix, qx, qy, cmp, queries, a, b,
                   alignment_set, result, seqs, pairIdx, scores>>

\* the loop is exhausted: Ok(scores)
SetReturn ==
    /\ pc = "set_loop"
    /\ pairIdx > Len(Combinations2(Len(seqs)))
    /\ setResult' = Ok(scores)
    /\ pc' = "done"
    /\ UNCHANGED <<similarity_matrix, qx, qy, cmp, queries, a, b,
                   alignment_set, result, seqs, pairIdx, scores, computed>>

InitSet ==
    /\ similarity_matrix \in SetOptions
    /\ seqs \in UNION {[1..k -> SeqPool] : k \in 0..MaxSeqs}
    /\ pairIdx = 1
    /\ scores = <<>>
    /\ computed = {}
    /\ setResult = Pending
    /\ a = <<>> /\ b = <<>>
    /\ alignment_set = NoAlignmentSet
    /\ result = Pending
    /\ qx = "A" /\ qy = "A" /\ cmp = 0 /\ queries = 0
    /\ pc = "set_loop"

NextSet == SetPairOk \/ SetPairErr \/ SetReturn

SpecSet == InitSet /\ [][NextSet]_vars

(* ==================== properties of align_set ========================== *)
SetDone == pc = "done" /\ setResult.kind # "Pending"
SomeEmpty == \E k \in 1..Len(seqs) : Len(seqs[k]) = 0
PairKeys(k) == {pr \in (0..(k - 1)) \X (0..(k - 1)) : pr[1] < pr[2]}

\* C6: for k non-empty sequences align_set returns exactly k*(k-1)/2 entries,
\* keyed by the pairs (i, j) with 0 <= i < j < k, and the entry at (i, j)
\* equals what align(seqs[i], seqs[j]) returns with the same score table.
C6_BatchCompleteness ==
    (SetDone /\ ~SomeEmpty) =>
        LET k == Len(seqs)
        IN /\ setResult.kind = "Ok"
           /\ DOMAIN setResult.value = PairKeys(k)
           /\ 2 * Cardinality(DOMAIN setResult.value) = k * (k - 1)
           /\ \A pr \in PairKeys(k) :
                Ok(setResult.value[pr]) =
                    AlignCall(seqs[pr[1] + 1], seqs[pr[2] + 1], similarity_matrix)

\* three non-empty sequences of different lengths and a non-empty table
C6_Witness ==
    /\ SetDone /\ ~SomeEmpty
    /\ Len(seqs) = 3
    /\ Len(seqs[1]) > Len(seqs[2]) /\ Len(seqs[3]) > Len(seqs[1])
    /\ similarity_matrix.some /\ similarity_matrix.map # {}
    /\ setResult.kind = "Ok"
    /\ Cardinality(DOMAIN setResult.value) = 3

\* C7 as stated: align_set fails whenever any sequence is empty, whatever
\* the size of the collection, a single sequence included.
C7_AnyEmptyFails ==
    (SetDone /\ SomeEmpty) => setResult = Err

\* C7 amended: with at least two sequences, an empty one makes align_set
\* fail; with fewer than two sequences no pair exists and align_set returns
\* the empty mapping even when its sequence is empty.
C7_EmptyFailsFromTwo ==
    SetDone =>
        /\ (SomeEmpty /\ Len(seqs) >= 2) => setResult = Err
        /\ Len(seqs) < 2 => setResult = Ok(<<>>)

\* the last of three sequences is the only empty one and the call failed
C7_Witness ==
    /\ SetDone /\ Len(seqs) = 3
    /\ Len(seqs[1]) > 0 /\ Len(seqs[2]) > 0 /\ Len(seqs[3]) = 0
    /\ setResult.kind = "Err"

\* the first pair, in iteration order, one of whose sequences is empty
PairFails(pr) == Len(seqs[pr[1] + 1]) = 0 \/ Len(seqs[pr[2] + 1]) = 0
FirstFailing ==
    LET cs == Combinations2(Len(seqs))
    IN IF \E q \in 1..Len(cs) : PairFails(cs[q])
       THEN CHOOSE q \in 1..Len(cs) :
                PairFails(cs[q]) /\ \A r \in 1..(q - 1) : ~PairFails(cs[r])
       ELSE 0

\* C8: when a pair's matrix construction fails, the later pairs are not
\* computed, the caller receives that pair's error and no mapping, the
\* results of the earlier pairs included.
C8_AllOrNothing ==
    LET cs == Combinations2(Len(seqs))
    IN /\ (SetDone /\ FirstFailing > 0) =>
            /\ setResult = Err
            /\ computed = {cs[q] : q \in 1..FirstFailing}
            /\ DOMAIN scores = {cs[q] : q \in 1..(FirstFailing - 1)}
       /\ (SetDone /\ setResult.kind = "Err") => FirstFailing > 0
       /\ (SetDone /\ setResult.kind = "Ok") =>
            /\ computed = {cs[q] : q \in 1..Len(cs)}
            /\ DOMAIN setResult.value = computed

\* a failure after a pair that succeeded and before a pair never computed
C8_Witness ==
    /\ SetDone /\ setResult.kind = "Err"
    /\ DOMAIN scores # {}
    /\ Cardinality(computed) < Len(Combinations2(Len(seqs)))

(* ===================== properties of compare =========================== *)
Compared == pc = "compare" /\ queries > 0
\* the table's entries for the query as put, and for the query reversed
Direct == {e \in similarity_matrix.map : e[1] = qx /\ e[2] = qy}
Reversed == {e \in similarity_matrix.map : e[1] = qy /\ e[2] = qx}
DefaultRule == IF qx = qy THEN 1 ELSE -1

\* C4: compare(x, y) is the table's entry for (x, y) when there is one,
\* else its entry for (y, x) when there is one, else (and with no table)
\* 1 for equal tokens and -1 for different ones; no table and an empty
\* table give the same result.
C4_LookupOrder ==
    Compared =>
        /\ (similarity_matrix.some /\ Direct # {}) =>
                \E e \in Direct : cmp = e[3]
        /\ (similarity_matrix.some /\ Direct = {} /\ Reversed # {}) =>
                \E e \in Reversed : cmp = e[3]
        /\ (~similarity_matrix.some \/ (Direct = {} /\ Reversed = {})) =>
                cmp = DefaultRule
        /\ similarity_matrix \in {None, Some({})} =>
                /\ cmp = matrix_match_fn(None, qx, qy)
                /\ cmp = matrix_match_fn(Some({}), qx, qy)

\* a query answered by the reversed entry, the table holding no direct one
C4_Witness ==
    /\ Compared
    /\ similarity_matrix.some
    /\ qx # qy /\ Direct = {} /\ Reversed # {}
    /\ cmp # DefaultRule

\* C5 as stated: an entry of the table is honoured whichever way round the
\* query is put: the entry for the query and the entry for the reversed
\* query each decide the result.
C5_SymmetricLookup ==
    (Compared /\ similarity_matrix.some) =>
        /\ \A e \in Direct : cmp = e[3]
        /\ \A e \in Reversed : cmp = e[3]

\* C5 amended: an entry for (x, y) decides compare(x, y); it decides
\* compare(y, x) as well when the table has no entry for (y, x) or one
\* with the same score; an entry for (y, x) otherwise wins for compare(y, x).
C5_SymmetricUnlessOverridden ==
    (Compared /\ similarity_matrix.some) =>
        /\ \A e \in Direct : cmp = e[3]
        /\ \A e \in Reversed :
                (\A d \in Direct : d[3] = e[3]) => cmp = e[3]
        /\ \A e \in Reversed :
                (\E d \in Direct : d[3] # e[3]) => cmp # e[3]

\* a reversed query of an entry whose score is not the default one
C5_Witness ==
    /\ Compared
    /\ similarity_matrix.some
    /\ qx # qy /\ Direct = {}
    /\ \E e \in Reversed : e[3] # DefaultRule /\ cmp = e[3]

====
